---- MODULE Spec2Model ----
(***************************************************************************)
(* A model of the two exporters of scaphandre:                             *)
(*   src/src/exporters/qemu.rs        the qemu exporter (per-VM energy     *)
(*                                    counters kept in files)              *)
(*   src/src/exporters/prometheus.rs  the prometheus exporter (HTTP)       *)
(*                                                                         *)
(* Text (String, &str, the content of a file) is a sequence of one-        *)
(* character strings, so that prefix tests, substring search, splitting,   *)
(* decimal formatting and parsing are computed as the code computes them.  *)
(***************************************************************************)
EXTENDS Integers, Sequences, FiniteSets, TLC

VARIABLES
    \* ---- the filesystem under the export root, and the exporter process
    dirs,        \* the directories that exist: a set of paths
    files,       \* the regular files that exist: path -> content
    running,     \* TRUE while the exporter process is alive (FALSE after a panic)
    \* ---- what the last call of add_or_create did (observation only)
    lastOps,     \* the filesystem operations it performed, in order
    lastResult,  \* "none" | "ok" | "err" | "panic"
    callNo,      \* how many calls of add_or_create were made
    sumDeltas,   \* the sum of the uj_value arguments of all the calls
    allOk,       \* TRUE while every call so far returned Ok
    restarts,    \* how many times the exporter was restarted
    prevFiles,   \* the files as they were before the last call
    lastDelta,   \* the uj_value argument of the last call
    \* ---- get_vm_name_from_cmdline on its own
    cmdline,     \* the argument: a sequence of tokens
    vmName,      \* the result
    namePc,      \* "idle" | "call" | "done"
    \* ---- filter_qemu_vm_processes on its own
    processes,        \* the argument: a sequence of process chains
    qemu_processes,   \* the result
    filterPc,         \* "idle" | "call" | "done"
    \* ---- the export loop: QemuExporter::run
    chainLen,    \* topology.proc_tracker: pid -> samples recorded (0: not tracked)
    timer,       \* run: timer, in seconds
    tickNo,      \* how many times the loop body ran
    tickInterval,  \* the last iterate: "none" | "no_power" | "no_time" | "some"
    tickCalls,   \* the last iterate: its calls of add_or_create, in order
    tickOps,     \* the last iterate: its filesystem operations, in order
    tickNoFactor,  \* the last iterate: the pids of the chains it found no factor for
    purgeTicks,  \* the turns of the loop that purged the terminated-process records
    wall,        \* the seconds the loop has run for
    \* ---- format_metric on its own
    fmtKey,      \* the arguments: key, value, labels
    fmtValue,
    fmtLabels,
    fmtOut,      \* the result
    fmtPc,       \* "idle" | "call" | "done"
    \* ---- the metrics server
    handlerKind, \* the show_metrics in service: "minimal" | "throttled" ("none": no server)
    now,         \* current_system_time_since_epoch(), in seconds
    reqs,        \* the requests: number -> [state, path, now, refreshed, gap, status, body]
    last_request,  \* PowerMetrics.last_request, in seconds
    lockHolder,  \* the request that holds the last_request mutex, or 0
    topoVersion, \* how many times the shared topology was refreshed
    purges,      \* how many times its terminated-process records were purged
    refreshTimes,  \* the `now` of the requests that refreshed, in order
    address,     \* runner: the configured address, a text
    port,        \* runner: the configured port, a text
    srvState,    \* runner: "starting" | "serving" | "panicked" | "failed" ("none": no server)
    socket_addr  \* the address and port the listener is bound to, or <<>>

fsVars      == <<dirs, files, running>>
counterObs  == <<lastOps, lastResult, callNo, sumDeltas, allOk, restarts, prevFiles,
                 lastDelta>>
counterVars == <<fsVars, counterObs>>
nameVars    == <<cmdline, vmName, namePc>>
filterVars  == <<processes, qemu_processes, filterPc>>
loopVars    == <<chainLen, timer, tickNo, tickInterval, tickCalls, tickOps, tickNoFactor,
                 purgeTicks, wall>>
fmtVars     == <<fmtKey, fmtValue, fmtLabels, fmtOut, fmtPc>>
srvStart    == <<address, port, srvState, socket_addr>>
srvVars     == <<handlerKind, now, reqs, last_request, lockHolder, topoVersion, purges,
                 refreshTimes, srvStart>>
vars        == <<counterVars, nameVars, filterVars, loopVars, fmtVars, srvVars>>

\* The variables each part of the model leaves alone.
notCounter  == <<nameVars, filterVars, loopVars, fmtVars, srvVars>>
notName     == <<counterVars, filterVars, loopVars, fmtVars, srvVars>>
notFilter   == <<counterVars, nameVars, loopVars, fmtVars, srvVars>>
notLoop     == <<counterObs, nameVars, filterVars, fmtVars, srvVars>>
notFmt      == <<counterVars, nameVars, filterVars, loopVars, srvVars>>
notSrv      == <<counterVars, nameVars, filterVars, loopVars, fmtVars>>

(***************************************************************************)
(* Bounds of the model.                                                    *)
(***************************************************************************)
MaxCalls    == 3    \* calls of add_or_create in one behaviour
MaxDelta    == 2    \* the largest uj_value of one call
MaxRestarts == 1    \* restarts of the exporter in one behaviour
MaxTokens   == 3    \* tokens of a command line given to get_vm_name_from_cmdline
MaxChains   == 2    \* process chains given to filter_qemu_vm_processes
MaxSamples  == 2    \* samples of one such chain
MaxTicks    == 4    \* iterations of the export loop in one behaviour
MaxChainLen == 3    \* samples kept of one process in the export loop (3 or more)
MaxLabels   == 2    \* labels of a metric given to format_metric
MaxLongTicks == 50  \* turns of the loop in one behaviour of the timer
MaxOverrun  == 1    \* seconds a turn of the loop may take beyond its sleep
MaxRequests == 3    \* HTTP requests in one behaviour
ClockStart  == 10   \* the time since the epoch when the server starts, in seconds
MaxElapsed  == 7    \* seconds that pass in one behaviour

(***************************************************************************)
(* Text helpers.                                                           *)
(***************************************************************************)
\* str::starts_with
StartsWith(s, p) == Len(s) >= Len(p) /\ SubSeq(s, 1, Len(p)) = p

\* str::contains
Contains(s, p) == \E i \in 1..(Len(s) - Len(p) + 1) : SubSeq(s, i, i + Len(p) - 1) = p

\* The index of the first occurrence of character c in s at or after from, or 0.
RECURSIVE IndexFrom(_, _, _)
IndexFrom(s, c, from) ==
    IF from > Len(s) THEN 0
    ELSE IF s[from] = c THEN from
    ELSE IndexFrom(s, c, from + 1)

\* str::split(c), collected: the pieces of s between the occurrences of c
\* (always at least one piece; pieces may be empty).
RECURSIVE Split(_, _)
Split(s, c) ==
    LET i == IndexFrom(s, c, 1) IN
    IF i = 0 THEN <<s>>
    ELSE <<SubSeq(s, 1, i - 1)>> \o Split(SubSeq(s, i + 1, Len(s)), c)

DigitChars == <<"0", "1", "2", "3", "4", "5", "6", "7", "8", "9">>

\* u64::to_string: the decimal digits, no sign, no leading zero.
RECURSIVE U64ToString(_)
U64ToString(n) ==
    IF n < 10 THEN <<DigitChars[n + 1]>>
    ELSE U64ToString(n \div 10) \o <<DigitChars[(n % 10) + 1]>>

DigitValue(c) == CHOOSE d \in 0..9 : DigitChars[d + 1] = c
IsDigit(c) == \E d \in 0..9 : DigitChars[d + 1] = c

RECURSIVE DigitsValue(_)
DigitsValue(s) ==
    IF Len(s) = 0 THEN 0
    ELSE 10 * DigitsValue(SubSeq(s, 1, Len(s) - 1)) + DigitValue(s[Len(s)])

\* str::parse::<u64>: an optional leading "+", then one or more digits.
\* The result is the number, or -1 for Err.  (Values beyond u64::MAX are Err
\* as well; the bounds of the model stay far below.)
ParseU64(s) ==
    LET body == IF Len(s) > 0 /\ s[1] = "+" THEN SubSeq(s, 2, Len(s)) ELSE s IN
    IF Len(body) > 0 /\ \A i \in 1..Len(body) : IsDigit(body[i])
    THEN DigitsValue(body)
    ELSE -1

(***************************************************************************)
(* Paths.  A path is the sequence of its components (each a text); the     *)
(* leading root and empty components ("a//b", a trailing "/") do not       *)
(* count, as in std::path.                                                 *)
(***************************************************************************)
RECURSIVE DropEmpty(_)
DropEmpty(pieces) ==
    IF Len(pieces) = 0 THEN <<>>
    ELSE IF Len(pieces[1]) = 0 THEN DropEmpty(Tail(pieces))
    ELSE <<pieces[1]>> \o DropEmpty(Tail(pieces))

\* PathBuf::from(text)
PathBufFrom(s) == DropEmpty(Split(s, "/"))

\* Path::join(relative text)
Join(p, s) == p \o PathBufFrom(s)

\* The path and all the directories above it (fs::create_dir_all creates them).
Ancestors(p) == {SubSeq(p, 1, n) : n \in 1..Len(p)}

\* Path::exists
Exists(d, f, p) == p \in d \/ p \in DOMAIN f

(***************************************************************************)
(* The names of qemu.rs.                                                   *)
(***************************************************************************)
\* run: let path = "/var/lib/libvirt/scaphandre"
ExportRoot == <<"/","v","a","r","/","l","i","b","/","l","i","b","v","i","r","t",
                "/","s","c","a","p","h","a","n","d","r","e">>
DomainPackageName == <<"i","n","t","e","l","-","r","a","p","l",":","0">>
DomainCoreName == <<"i","n","t","e","l","-","r","a","p","l",":","0","/",
                    "i","n","t","e","l","-","r","a","p","l",":","0",":","0">>
NameFile == <<"n","a","m","e">>
EnergyFile == <<"e","n","e","r","g","y","_","u","j">>
PackageLabel == <<"p","a","c","k","a","g","e","-","0">>
CoreLabel == <<"c","o","r","e">>

\* The paths add_or_create works on, for the VM directory `path`.
DomainPackage(path) == Join(path, DomainPackageName)
DomainCore(path) == Join(path, DomainCoreName)
PackageNamePath(path) == Join(DomainPackage(path), NameFile)
CoreNamePath(path) == Join(DomainCore(path), NameFile)
PackageEnergyPath(path) == Join(DomainPackage(path), EnergyFile)
CoreEnergyPath(path) == Join(DomainCore(path), EnergyFile)

(***************************************************************************)
(* add_or_create, one filesystem call after the other.  A run of it is a   *)
(* record [dirs, files, ops, result]; result is "run" until the function   *)
(* returns ("ok", "err") or panics ("panic").  `fault` names the one       *)
(* filesystem call of this run that the operating system refuses, if it is *)
(* made at all: a refused fs::create_dir_all creates nothing and a refused *)
(* fs::write (permission denied, read-only mount) leaves the file as it    *)
(* was.                                                                    *)
(***************************************************************************)
FaultPoints == {"none", "mkdir_path", "mkdir_package", "write_package_name",
                "mkdir_core", "write_core_name", "write_package_energy",
                "write_core_energy"}

\* if !p.exists() { match fs::create_dir_all(p) { Ok => .., Err => panic!(..) } }
CreateDirIfMissing(st, p, fault, me) ==
    IF st.result # "run" \/ Exists(st.dirs, st.files, p) THEN st
    ELSE IF fault = me THEN [st EXCEPT !.result = "panic"]
    ELSE [st EXCEPT !.dirs = @ \cup Ancestors(p),
                    !.ops = Append(@, [op |-> "create_dir_all", path |-> p])]

\* fs::write(p, content)?
WriteFile(st, p, content, fault, me) ==
    IF st.result # "run" THEN st
    ELSE IF fault = me THEN [st EXCEPT !.result = "err"]
    ELSE [st EXCEPT !.files = (p :> content) @@ @,
                    !.ops = Append(@, [op |-> "write", path |-> p])]

\* fs::read_to_string(p): Ok(content) when the file exists.
ReadToString(st, p) ==
    IF p \in DOMAIN st.files THEN [ok |-> TRUE, val |-> st.files[p]]
    ELSE [ok |-> FALSE, val |-> <<>>]

\* The mutation of NewContent that overwrites the counter with the delta.
NewContentOverwrite(read, uj_value) == uj_value

\* let mut content = 0;
\* if let Ok(file) = read { content = file.parse::<u64>().unwrap(); content += uj_value; }
\* The result is the new content, or -1 when unwrap panics.
NewContent(read, uj_value) ==
    IF read.ok
    THEN IF ParseU64(read.val) < 0 THEN -1 ELSE ParseU64(read.val) + uj_value
    ELSE 0

\* The two fs::write of the labels, lines 138 and 147, each after the
\* directory it lies in.
WritePackageName(st, path, fault) ==
    WriteFile(st, PackageNamePath(path), PackageLabel, fault, "write_package_name")

\* The mutation of WriteCoreName that writes the label of the package.
WriteCoreNameAsPackage(st, path, fault) ==
    WriteFile(st, CoreNamePath(path), PackageLabel, fault, "write_core_name")

WriteCoreName(st, path, fault) ==
    WriteFile(st, CoreNamePath(path), CoreLabel, fault, "write_core_name")

\* The mutation of UpdateCounters that reads the sub-domain counter back.
UpdateCountersFromCore(st, path, uj_value, fault) ==
    IF st.result # "run" THEN st
    ELSE
    LET content == NewContent(ReadToString(st, CoreEnergyPath(path)), uj_value) IN
    IF content < 0 THEN [st EXCEPT !.result = "panic"]
    ELSE
    LET s1 == WriteFile(st, PackageEnergyPath(path), U64ToString(content), fault,
                        "write_package_energy")
        s2 == WriteFile(s1, CoreEnergyPath(path), U64ToString(content), fault,
                        "write_core_energy")
    IN  IF s2.result = "run" THEN [s2 EXCEPT !.result = "ok"] ELSE s2

\* The end of add_or_create, lines 149 to 156.
UpdateCounters(st, path, uj_value, fault) ==
    IF st.result # "run" THEN st
    ELSE
    LET content == NewContent(ReadToString(st, PackageEnergyPath(path)), uj_value) IN
    IF content < 0 THEN [st EXCEPT !.result = "panic"]
    ELSE
    LET s1 == WriteFile(st, PackageEnergyPath(path), U64ToString(content), fault,
                        "write_package_energy")
        s2 == WriteFile(s1, CoreEnergyPath(path), U64ToString(content), fault,
                        "write_core_energy")
    IN  IF s2.result = "run" THEN [s2 EXCEPT !.result = "ok"] ELSE s2

add_or_create(d, f, path, uj_value, fault) ==
    LET s0 == [dirs |-> d, files |-> f, ops |-> <<>>, result |-> "run"]
        s1 == CreateDirIfMissing(s0, path, fault, "mkdir_path")
        s2 == CreateDirIfMissing(s1, DomainPackage(path), fault, "mkdir_package")
        s3 == WritePackageName(s2, path, fault)
        s4 == CreateDirIfMissing(s3, DomainCore(path), fault, "mkdir_core")
        s5 == WriteCoreName(s4, path, fault)
    IN  UpdateCounters(s5, path, uj_value, fault)

(***************************************************************************)
(* The counter store on its own: calls of add_or_create on one VM path,    *)
(* with any delta and any refused filesystem call, and restarts of the     *)
(* exporter between the calls.                                             *)
(***************************************************************************)
VmName == <<"v","m","1">>
VmPath == PathBufFrom(ExportRoot \o <<"/">> \o VmName)

CounterInit ==
    /\ dirs = {}
    /\ files = <<>>
    /\ running = TRUE
    /\ lastOps = <<>>
    /\ lastResult = "none"
    /\ callNo = 0
    /\ sumDeltas = 0
    /\ allOk = TRUE
    /\ restarts = 0
    /\ prevFiles = <<>>
    /\ lastDelta = 0

\* One call add_or_create(VmPath, uj_value).
CallAddOrCreate ==
    /\ running
    /\ callNo < MaxCalls
    /\ \E uj_value \in 0..MaxDelta, fault \in FaultPoints :
         \E r \in {add_or_create(dirs, files, VmPath, uj_value, fault)} :
         /\ dirs' = r.dirs
         /\ files' = r.files
         /\ running' = (r.result # "panic")
         /\ lastOps' = r.ops
         /\ lastResult' = r.result
         /\ callNo' = callNo + 1
         /\ sumDeltas' = sumDeltas + uj_value
         /\ allOk' = (allOk /\ r.result = "ok")
         /\ prevFiles' = files
         /\ lastDelta' = uj_value
    /\ UNCHANGED <<restarts, notCounter>>

\* The exporter is stopped (or has panicked) and is started again: the
\* exporter keeps no counter in memory, the filesystem is all that remains.
Restart ==
    /\ restarts < MaxRestarts
    /\ running' = TRUE
    /\ restarts' = restarts + 1
    /\ UNCHANGED <<dirs, files, lastOps, lastResult, callNo, sumDeltas, allOk, prevFiles,
                   lastDelta>>
    /\ UNCHANGED notCounter

CounterNext == CallAddOrCreate \/ Restart

\* Contents an energy_uj file may hold when the exporter starts on a tree
\* that exists: left by an earlier run ("7"), by an fs::write interrupted
\* after it truncated the file (""), or by another writer (the kernel's
\* powercap files end with a line feed).
ContentSeven == <<"7">>
ContentEmpty == <<>>
ContentLine == <<"7", "\n">>
ContentNegative == <<"-", "5">>
ContentPlus == <<"+", "7">>
ContentWord == <<"a", "b", "c">>
ForeignContents == {ContentSeven, ContentEmpty, ContentLine, ContentNegative,
                    ContentPlus, ContentWord}

\* The exporter starts on an existing tree of VmPath.
ForeignInit ==
    /\ dirs = Ancestors(DomainCore(VmPath))
    /\ \E c1 \in ForeignContents, c2 \in ForeignContents :
          files = (PackageNamePath(VmPath) :> PackageLabel)
                  @@ (CoreNamePath(VmPath) :> CoreLabel)
                  @@ (PackageEnergyPath(VmPath) :> c1)
                  @@ (CoreEnergyPath(VmPath) :> c2)
    /\ running = TRUE
    /\ lastOps = <<>>
    /\ lastResult = "none"
    /\ callNo = 0
    /\ sumDeltas = 0
    /\ allOk = TRUE
    /\ restarts = 0
    /\ prevFiles = <<>>
    /\ lastDelta = 0

(***************************************************************************)
(* The VM classifier: get_vm_name_from_cmdline.                            *)
(***************************************************************************)
GuestMarker == <<"g","u","e","s","t","=">>
IdFlag == <<"-","i","d">>

\* The least element of a non-empty set of numbers.
Min(S) == CHOOSE x \in S : \A y \in S : x <= y

\* The first loop: the tokens that start with "guest=".
GuestTokens(cl) == {i \in 1..Len(cl) : StartsWith(cl[i], GuestMarker)}

\* let mut splitted = elmt.split('='); splitted.next();
\* splitted.next().unwrap().split(',').next().unwrap()
GuestName(elmt) == Split(Split(elmt, "=")[2], ",")[1]

\* The second loop: the windows(2) whose first token is "-id".
IdPairs(cl) == {i \in 1..(Len(cl) - 1) : cl[i] = IdFlag}

\* The mutation of get_vm_name_from_cmdline that looks for "-id" first.
get_vm_name_id_first(cl) ==
    IF IdPairs(cl) # {} THEN cl[Min(IdPairs(cl)) + 1]
    ELSE IF GuestTokens(cl) # {} THEN GuestName(cl[Min(GuestTokens(cl))])
    ELSE <<>>

get_vm_name_from_cmdline(cl) ==
    IF GuestTokens(cl) # {} THEN GuestName(cl[Min(GuestTokens(cl))])
    ELSE IF IdPairs(cl) # {} THEN cl[Min(IdPairs(cl)) + 1]
    ELSE <<>>

\* The tokens the command lines of the model are made of.
TokIdFlag == <<"-","i","d">>
Tok107 == <<"1","0","7">>
TokGuestMyvm == <<"g","u","e","s","t","=","m","y","v","m",",","e","x","t","r","a">>
TokGuestLibvirt == <<"g","u","e","s","t","=","v","m","1",",","d","e","b","u","g","-",
                     "t","h","r","e","a","d","s","=","o","n">>
TokGuestEq == <<"g","u","e","s","t","=","a","=","b",",","c">>
TokGuestEmpty == <<"g","u","e","s","t","=">>
TokNotGuest == <<"x","g","u","e","s","t","=","v","m","9">>
TokName == <<"-","n","a","m","e">>
TokQemuBin == <<"/","u","s","r","/","b","i","n","/","q","e","m","u","-","s","y","s",
                "t","e","m","-","x","8","6","_","6","4">>
TokKvmBin == <<"/","u","s","r","/","b","i","n","/","k","v","m">>
TokBash == <<"b","a","s","h">>

NameTokens == {TokIdFlag, Tok107, TokGuestMyvm, TokGuestLibvirt, TokGuestEq,
               TokGuestEmpty, TokNotGuest}

\* The sequences over S of length at most n.
SeqUpTo(S, n) == UNION {[1..k -> S] : k \in 0..n}

NameIdle == cmdline = <<>> /\ vmName = <<>> /\ namePc = "idle"

NameInit ==
    /\ cmdline \in SeqUpTo(NameTokens, MaxTokens)
    /\ vmName = <<>>
    /\ namePc = "call"

\* One call get_vm_name_from_cmdline(&cmdline).
GetVmName ==
    /\ namePc = "call"
    /\ vmName' = get_vm_name_from_cmdline(cmdline)
    /\ namePc' = "done"
    /\ UNCHANGED <<cmdline, notName>>

(***************************************************************************)
(* The VM classifier: filter_qemu_vm_processes.  A process chain is a      *)
(* sequence of ProcessRecord, each with the pid and the command line of    *)
(* its sample.                                                             *)
(***************************************************************************)
SignatureQemu == <<"q","e","m","u","-","s","y","s","t","e","m">>
SignatureKvm == <<"/","u","s","r","/","b","i","n","/","k","v","m">>

\* |x| x.contains("qemu-system") || x.contains("/usr/bin/kvm")
IsSignature(x) == Contains(x, SignatureQemu) \/ Contains(x, SignatureKvm)

\* pr.process.cmdline.iter().find(..) is Some
HasSignature(cl) == \E i \in 1..Len(cl) : IsSignature(cl[i])

\* The mutation of Retained that keeps every chain that is not empty.
RetainedAll(vecp) == Len(vecp) > 0

\* The mutation of Retained that looks for the signature in every sample.
RetainedAnySample(vecp) == \E k \in 1..Len(vecp) : HasSignature(vecp[k].cmdline)

\* if !vecp.is_empty() { if let Some(pr) = vecp.first() { if let Some(res) = find .. } } }
Retained(vecp) == Len(vecp) > 0 /\ HasSignature(vecp[1].cmdline)

RECURSIVE filter_qemu_vm_processes(_)
filter_qemu_vm_processes(ps) ==
    IF Len(ps) = 0 THEN <<>>
    ELSE (IF Retained(ps[1]) THEN <<ps[1]>> ELSE <<>>)
         \o filter_qemu_vm_processes(Tail(ps))

\* The command lines of the processes of the model.
CmdQemu == <<TokQemuBin, TokName, TokGuestLibvirt>>
CmdKvm == <<TokKvmBin, TokIdFlag, Tok107>>
CmdBash == <<TokBash>>
Cmdlines == {CmdQemu, CmdKvm, CmdBash}

\* The chain of process number pid whose samples have the command lines cs.
MakeChain(pid, cs) == [j \in 1..Len(cs) |-> [pid |-> pid, cmdline |-> cs[j]]]

\* The list of chains whose samples have the command lines css[1], css[2],
\* ...: the chain at position i is that of process 100 + i.
MakeChains(css) == [i \in 1..Len(css) |-> MakeChain(100 + i, css[i])]

FilterIdle == processes = <<>> /\ qemu_processes = <<>> /\ filterPc = "idle"

FilterInit ==
    /\ \E css \in SeqUpTo(SeqUpTo(Cmdlines, MaxSamples), MaxChains) :
          processes = MakeChains(css)
    /\ qemu_processes = <<>>
    /\ filterPc = "call"

\* One call filter_qemu_vm_processes(&processes).
FilterQemuVmProcesses ==
    /\ filterPc = "call"
    /\ qemu_processes' = filter_qemu_vm_processes(processes)
    /\ filterPc' = "done"
    /\ UNCHANGED <<processes, notFilter>>

(***************************************************************************)
(* The export loop: run and iterate.  The topology is what the sensor      *)
(* layer gives: at each refresh every tracked process gets one more        *)
(* sample and further processes may come to be tracked; the power diff,    *)
(* the time diff and the attribution factors are there or not.  An option  *)
(* is <<>> (None) or <<v>> (Some(v)).  Power is in whole microwatts, time  *)
(* in whole seconds and a factor in halves, all f64 values that the code's *)
(* products compute exactly.                                               *)
(***************************************************************************)
CleanerStep == 120
Step == 5

\* The processes of the host: pid -> command line.
ProcTable == (1 :> CmdQemu) @@ (2 :> CmdKvm) @@ (3 :> CmdBash) @@ (4 :> <<TokQemuBin>>)
             @@ (5 :> <<TokKvmBin>>)
Pids == DOMAIN ProcTable

PowerDiffs == {<<>>, <<3>>}
TimeDiffs == {<<>>, <<1>>}

\* topology.refresh(), as to the process records: one more sample for every
\* tracked process, a first sample for the processes of `born`.
RefreshChains(cl, born) ==
    [p \in Pids |->
        IF cl[p] > 0 THEN (IF cl[p] < MaxChainLen THEN cl[p] + 1 ELSE cl[p])
        ELSE IF p \in born THEN 1 ELSE 0]

\* The chain of process p: its samples, each with the pid and the cmdline.
ChainOf(cl, p) == [i \in 1..cl[p] |-> [pid |-> p, cmdline |-> ProcTable[p]]]

\* topology.proc_tracker.get_alive_processes(): the chains of the tracked
\* processes, by pid.
RECURSIVE AliveFrom(_, _)
AliveFrom(cl, p) ==
    IF p \notin Pids THEN <<>>
    ELSE (IF cl[p] > 0 THEN <<ChainOf(cl, p)>> ELSE <<>>) \o AliveFrom(cl, p + 1)

get_alive_processes(cl) == AliveFrom(cl, 1)

\* (proc_utilization * uj_dynamic) as u64, for the factor halves/2: the cast
\* drops the fraction and takes a negative value to 0.
UjToAdd(halves, uj_dynamic) ==
    IF halves * uj_dynamic < 0 THEN 0 ELSE (halves * uj_dynamic) \div 2

\* format!("{path}/{vm_name}") and PathBuf::from
ExportedPath(path, vm_name) == PathBufFrom(path \o <<"/">> \o vm_name)

\* The mutation of Eligible that attributes every chain.
EligibleAny(qp) == TRUE

\* if qp.len() > 2
Eligible(qp) == Len(qp) > 2

\* Lines 72 to 95: the attribution of one chain qp that is long enough.  st
\* is the run of iterate so far: [dirs, files, calls, ops, nofactor, result].
AttributeEligible(st, qp, path, uj_dynamic, factor, faultPid, fault) ==
    LET last == qp[1]
        vm_name == get_vm_name_from_cmdline(last.cmdline)
        exported_path == ExportedPath(path, vm_name)
    IN  IF factor[last.pid] = <<>> THEN [st EXCEPT !.nofactor = Append(@, last.pid)]
        ELSE
        LET uj_to_add == UjToAdd(factor[last.pid][1], uj_dynamic)
            r == add_or_create(st.dirs, st.files, exported_path, uj_to_add,
                               IF last.pid = faultPid THEN fault ELSE "none")
        IN  [dirs |-> r.dirs, files |-> r.files,
             calls |-> Append(st.calls, [pid |-> last.pid, path |-> exported_path,
                                         uj |-> uj_to_add, result |-> r.result]),
             ops |-> st.ops \o r.ops,
             nofactor |-> st.nofactor,
             result |-> IF r.result = "panic" THEN "panic" ELSE "run"]

\* The mutation of AttributeChain that gives the turn up at the first call
\* that returned an error.
AttributeChainStopOnErr(st, qp, path, uj_dynamic, factor, faultPid, fault) ==
    IF \/ st.result # "run"
       \/ ~Eligible(qp)
       \/ \E i \in 1..Len(st.calls) : st.calls[i].result = "err"
    THEN st
    ELSE AttributeEligible(st, qp, path, uj_dynamic, factor, faultPid, fault)

\* The body of the for loop of iterate for one chain qp, lines 71 to 96.
AttributeChain(st, qp, path, uj_dynamic, factor, faultPid, fault) ==
    IF st.result # "run" \/ ~Eligible(qp) THEN st
    ELSE AttributeEligible(st, qp, path, uj_dynamic, factor, faultPid, fault)

RECURSIVE AttributeAll(_, _, _, _, _, _, _)
AttributeAll(st, qps, path, uj_dynamic, factor, faultPid, fault) ==
    IF Len(qps) = 0 THEN st
    ELSE AttributeAll(AttributeChain(st, qps[1], path, uj_dynamic, factor, faultPid, fault),
                      Tail(qps), path, uj_dynamic, factor, faultPid, fault)

\* The mutation of iterate that goes on with a power of 0 when there is no
\* power diff, and with a time of 1 when there is no time diff.
IterateDefaulting(d, f, cl, path, power, tdiff, factor, faultPid, fault) ==
    LET st == AttributeAll([dirs |-> d, files |-> f, calls |-> <<>>, ops |-> <<>>,
                            nofactor |-> <<>>, result |-> "run"],
                           filter_qemu_vm_processes(get_alive_processes(cl)), path,
                           (IF power = <<>> THEN 0 ELSE power[1])
                              * (IF tdiff = <<>> THEN 1 ELSE tdiff[1]),
                           factor, faultPid, fault)
    IN  [dirs |-> st.dirs, files |-> st.files, calls |-> st.calls, ops |-> st.ops,
         nofactor |-> st.nofactor,
         result |-> IF st.result = "run" THEN "ok" ELSE st.result,
         interval |-> IF power = <<>> THEN "no_power"
                      ELSE IF tdiff = <<>> THEN "no_time" ELSE "some"]

\* iterate, after topology.refresh(): cl are the refreshed process records,
\* power and tdiff what get_records_power_diff_microwatts_dynamic and
\* get_records_time_diff return, factor what get_process_attribution_factor
\* returns for each pid.
iterate(d, f, cl, path, power, tdiff, factor, faultPid, fault) ==
    LET skip == [dirs |-> d, files |-> f, calls |-> <<>>, ops |-> <<>>, nofactor |-> <<>>,
                 result |-> "ok"] IN
    IF power = <<>> THEN [interval |-> "no_power"] @@ skip
    ELSE IF tdiff = <<>> THEN [interval |-> "no_time"] @@ skip
    ELSE
    LET uj_dynamic == power[1] * tdiff[1]
        processes_ == get_alive_processes(cl)
        qemu_processes_ == filter_qemu_vm_processes(processes_)
        st == AttributeAll([dirs |-> d, files |-> f, calls |-> <<>>, ops |-> <<>>,
                            nofactor |-> <<>>, result |-> "run"],
                           qemu_processes_, path, uj_dynamic, factor, faultPid, fault)
    IN  [dirs |-> st.dirs, files |-> st.files, calls |-> st.calls, ops |-> st.ops,
         nofactor |-> st.nofactor,
         result |-> IF st.result = "run" THEN "ok" ELSE st.result,
         interval |-> "some"]

\* The mutation of TimerAfter that lets the budget reach 0.
TimerAfterInclusive(t) == IF t - Step >= 0 THEN t - Step ELSE CleanerStep

\* if timer - step > 0 { timer -= step } else { clean..(); timer = cleaner_step }
TimerAfter(t) == IF t - Step > 0 THEN t - Step ELSE CleanerStep

LoopIdle ==
    /\ chainLen = [p \in Pids |-> 0]
    /\ timer = CleanerStep
    /\ tickNo = 0
    /\ tickInterval = "none"
    /\ tickCalls = <<>>
    /\ tickOps = <<>>
    /\ tickNoFactor = <<>>
    /\ purgeTicks = <<>>
    /\ wall = 0

\* QemuExporter::new and the first lines of run, on a host where nothing
\* was exported yet.
LoopInit ==
    /\ dirs = {}
    /\ files = <<>>
    /\ running = TRUE
    /\ LoopIdle

\* else { ..clean_terminated_process_records_vectors(); .. }
Purges(t) == ~(t - Step > 0)

\* What one turn of the loop of run leaves, r being what iterate did and
\* overrun the seconds the turn took beyond the sleep of `step`.
TickDone(cl, r, overrun) ==
    /\ chainLen' = cl
    /\ dirs' = r.dirs
    /\ files' = r.files
    /\ running' = (r.result # "panic")
    /\ timer' = IF r.result = "panic" THEN timer ELSE TimerAfter(timer)
    /\ purgeTicks' = IF r.result # "panic" /\ Purges(timer)
                     THEN Append(purgeTicks, tickNo + 1) ELSE purgeTicks
    /\ wall' = IF r.result = "panic" THEN wall ELSE wall + Step + overrun
    /\ tickInterval' = r.interval
    /\ tickCalls' = r.calls
    /\ tickOps' = r.ops
    /\ tickNoFactor' = r.nofactor
    /\ tickNo' = tickNo + 1
    /\ UNCHANGED notLoop

\* The processes a refresh may start to track: those of the host's start at
\* the first refresh, the two late ones, started together, at any refresh.
HostPids == {1, 2, 3}
LatePid == 4
TwinPid == 5
BornSets == {HostPids, HostPids \cup {LatePid, TwinPid}}

\* The processes whose command line has a guest signature.
QemuPids == {p \in Pids : HasSignature(ProcTable[p])}

\* The refusals of the model for a call made by iterate: none, or, in the
\* call for the first guest or for the first late one, a directory that
\* cannot be created, a label that cannot be written, a sub-domain counter
\* that cannot be written.
FaultPids == {p \in QemuPids : p = Min(QemuPids) \/ p = LatePid}
LoopFaults == {<<p, fl>> : p \in FaultPids,
                          fl \in {"mkdir_path", "write_package_name", "write_core_energy"}}
              \cup {<<0, "none">>}

\* The attribution factors: Some(0.5) for every process but, possibly, the
\* second guest, which has none.
NoFactorPids == {p \in QemuPids : p = Min(QemuPids \ {Min(QemuPids)})}
FactorMaps == {[p \in Pids |-> IF p = nofactor THEN <<>> ELSE <<1>>] :
                  nofactor \in NoFactorPids \cup {0}}

\* One turn of the loop of run: iterate (refresh included), sleep, timer.
\* The turn is one of at most maxTicks, on a host whose power diffs are
\* among powers, and takes `step` and one of overruns seconds.
LoopTick(maxTicks, powers, overruns) ==
    /\ running
    /\ tickNo < maxTicks
    /\ \E born \in BornSets, power \in powers, tdiff \in TimeDiffs, overrun \in overruns :
         \E factor \in (IF power = <<>> \/ tdiff = <<>>
                        THEN {[p \in Pids |-> <<1>>]} ELSE FactorMaps),
            ft \in (IF power = <<>> \/ tdiff = <<>> THEN {<<0, "none">>} ELSE LoopFaults) :
            \E cl \in {RefreshChains(chainLen, born)} :
               \E r \in {iterate(dirs, files, cl, ExportRoot, power, tdiff, factor,
                                 ft[1], ft[2])} :
                  TickDone(cl, r, overrun)

\* The turns of a loop that exports.
RunTick == LoopTick(MaxTicks, PowerDiffs, {0})

\* The turns of a loop that runs for long on a host that has no power
\* record to give: iterate returns at its first let-else.
TimerTick == LoopTick(MaxLongTicks, {<<>>}, 0..MaxOverrun)

\* The exporter is started again after it panicked: a new topology and a
\* new timer; the files stay.
RestartLoop ==
    /\ ~running
    /\ restarts < MaxRestarts
    /\ running' = TRUE
    /\ restarts' = restarts + 1
    /\ chainLen' = [p \in Pids |-> 0]
    /\ timer' = CleanerStep
    /\ UNCHANGED <<dirs, files, tickNo, tickInterval, tickCalls, tickOps, tickNoFactor,
                   purgeTicks, wall>>
    /\ UNCHANGED <<lastOps, lastResult, callNo, sumDeltas, allOk, prevFiles, lastDelta>>
    /\ UNCHANGED <<nameVars, filterVars, fmtVars, srvVars>>

(***************************************************************************)
(* prometheus.rs: format_metric.  labels is an Option<&HashMap>: <<>> for  *)
(* None, <<m>> for Some(m), m being the pairs <<k, v>> of the map in the   *)
(* order its iterator gives them (any order, the keys distinct).           *)
(***************************************************************************)
\* for (k, v) in labels.iter() { result.push_str(&format!("{}=\"{}\",", k, v)); }
RECURSIVE PushLabels(_, _)
PushLabels(result, m) ==
    IF Len(m) = 0 THEN result
    ELSE PushLabels(result \o m[1][1] \o <<"=", "\"">> \o m[1][2] \o <<"\"", ",">>, Tail(m))

\* result.remove(result.len() - 1)
RemoveLast(result) == SubSeq(result, 1, Len(result) - 1)

\* if let Some(labels) = labels { push('{'); for ..; remove(len - 1); push('}') }
LabelBlock(result, labels) ==
    IF labels = <<>> THEN result
    ELSE RemoveLast(PushLabels(result \o <<"{">>, labels[1])) \o <<"}">>

format_metric(key, value, labels) ==
    LabelBlock(key, labels) \o <<" ">> \o value \o <<"\n">>

KeyHostPower == <<"h","o","s","t","_","p","o","w","e","r","_","m","i","c","r","o","w",
                  "a","t","t","s">>
KeyUp == <<"u","p">>
Val45000 == <<"4","5","0","0","0">>
ValHalf == <<"0",".","5">>
LblHostname == <<"h","o","s","t","n","a","m","e">>
LblH1 == <<"h","1">>
LblH2 == <<"h","2">>
LblVmname == <<"v","m","n","a","m","e">>
LblVm1 == <<"v","m","1">>
LblPid == <<"p","i","d">>
Lbl42 == <<"4","2">>

MetricKeys == {KeyHostPower, KeyUp}
MetricValues == {Val45000, ValHalf}
LabelPairs == {<<LblHostname, LblH1>>, <<LblHostname, LblH2>>, <<LblVmname, LblVm1>>,
               <<LblPid, Lbl42>>}

\* The maps of at most MaxLabels labels, each in every order of iteration.
LabelMaps == {m \in SeqUpTo(LabelPairs, MaxLabels) :
                 \A i, j \in 1..Len(m) : i # j => m[i][1] # m[j][1]}

\* None, or Some of a map (the empty map included).
LabelOptions == {<<>>} \cup {<<m>> : m \in LabelMaps}

FmtIdle ==
    /\ fmtKey = <<>>
    /\ fmtValue = <<>>
    /\ fmtLabels = <<>>
    /\ fmtOut = <<>>
    /\ fmtPc = "idle"

FmtInit ==
    /\ fmtKey \in MetricKeys
    /\ fmtValue \in MetricValues
    /\ fmtLabels \in LabelOptions
    /\ fmtOut = <<>>
    /\ fmtPc = "call"

\* One call format_metric(&key, &value, labels).
FormatMetric ==
    /\ fmtPc = "call"
    /\ fmtOut' = format_metric(fmtKey, fmtValue, fmtLabels)
    /\ fmtPc' = "done"
    /\ UNCHANGED <<fmtKey, fmtValue, fmtLabels, notFmt>>

(***************************************************************************)
(* prometheus.rs: the metrics server.  The file holds two show_metrics:    *)
(* the one in service (lines 225 to 234), which answers from the path      *)
(* alone, and the throttled one (lines 240 to 293, with its runner, lines  *)
(* 155 to 187), which is commented out.  handlerKind says which of the two *)
(* serves.  The throttled one runs on one actix worker and holds the       *)
(* last_request mutex from its second line to its end, so one request is   *)
(* handled at a time, while further requests arrive and time passes.       *)
(***************************************************************************)
RefreshWindow == 5

MetricsPath == "/metrics"
RequestPaths == {"/metrics", "/"}

\* The bodies: a text, or the metrics generated from a snapshot of the topology.
TextBody(t) == [kind |-> "text", text |-> t, snapshot |-> 0]
MetricsBody(version) == [kind |-> "metrics", text |-> "", snapshot |-> version]

PlaceholderBody == TextBody("Here come tha metriczzz !!!")
HintBody == TextBody("go to /metrics !!")
LandingBody == TextBody("<a href=\"https://github.com/hubblo-org/scaphandre/\">Scaphandre's</a> prometheus exporter here. Metrics available on <a href=\"/metrics\">/metrics</a>")

NoRequest == [state |-> "new", path |-> "", now |-> 0, refreshed |-> FALSE, gap |-> 0,
              status |-> 0, body |-> TextBody("")]

\* The time of the last refresh of the topology (0: none yet, as
\* Duration::new(0, 0)).
LastRefreshAt == IF Len(refreshTimes) = 0 THEN 0 ELSE refreshTimes[Len(refreshTimes)]

SrvIdle ==
    /\ handlerKind = "none"
    /\ now = 0
    /\ reqs = <<>>
    /\ last_request = 0
    /\ lockHolder = 0
    /\ topoVersion = 0
    /\ purges = 0
    /\ refreshTimes = <<>>
    /\ address = <<>>
    /\ port = <<>>
    /\ srvState = "none"
    /\ socket_addr = <<>>

\* One part of a dotted address: one to three digits, at most 255, no
\* leading zero.  The result is the number, or -1.
ParseOctet(part) ==
    IF /\ Len(part) \in 1..3
       /\ \A i \in 1..Len(part) : IsDigit(part[i])
       /\ Len(part) > 1 => part[1] # "0"
       /\ DigitsValue(part) <= 255
    THEN DigitsValue(part)
    ELSE -1

\* str::parse::<IpAddr> on the dotted notation: four parts separated by
\* ".".  The result is the four numbers, or <<>> for Err.  (The colon
\* notation of IPv6 is not among the addresses of the model.)
ParseIpAddr(s) ==
    LET parts == Split(s, ".") IN
    IF Len(parts) = 4 /\ \A i \in 1..4 : ParseOctet(parts[i]) # -1
    THEN [i \in 1..4 |-> ParseOctet(parts[i])]
    ELSE <<>>

\* str::parse::<u16>: the number, or -1 for Err.
ParseU16(s) == IF ParseU64(s) > 65535 THEN -1 ELSE ParseU64(s)

\* The texts given to runner as address and port.
AddrLocal == <<"1","0",".","0",".","0",".","1">>
AddrShort == <<"1","0",".","0",".","1">>
AddrBig == <<"2","5","6",".","0",".","0",".","1">>
AddrHost == <<"h","o","s","t">>
PortWeb == <<"8","0","8","0">>
PortBig == <<"6","5","5","3","6">>
PortName == <<"h","t","t","p">>
PortNegative == <<"-","1">>
Addresses == {AddrLocal, AddrShort, AddrBig, AddrHost, <<>>}
Ports == {PortWeb, PortBig, PortName, PortNegative, <<>>}

Started(a, p) == [state |-> "serving", socket |-> <<a, p>>]
NotStarted(how) == [state |-> how, socket |-> <<>>]

\* The mutation of runner that serves on a default address and port when
\* the configured ones do not parse.
RunnerDefaulting(kind, addr, prt) ==
    Started(IF ParseIpAddr(addr) = <<>> THEN <<0, 0, 0, 0>> ELSE ParseIpAddr(addr),
            IF ParseU16(prt) = -1 THEN 8080 ELSE ParseU16(prt))

\* runner, up to the listener.  The one in service (lines 116 to 151)
\* parses the address as IpAddr and the port as u16 and panics otherwise;
\* the disabled one (lines 155 to 187) parses the port as u64, panics
\* otherwise, and binds "address:port", which is an Err, returned with `?`,
\* for a port that is no u16.
runner(kind, addr, prt) ==
    IF ParseIpAddr(addr) = <<>> THEN NotStarted("panicked")
    ELSE IF kind = "minimal"
    THEN IF ParseU16(prt) = -1 THEN NotStarted("panicked")
         ELSE Started(ParseIpAddr(addr), ParseU16(prt))
    ELSE IF ParseU64(prt) = -1 THEN NotStarted("panicked")
         ELSE IF ParseU16(prt) = -1 THEN NotStarted("failed")
         ELSE Started(ParseIpAddr(addr), ParseU16(prt))

\* runner is called with its configuration.
SrvInit ==
    /\ handlerKind \in {"minimal", "throttled"}
    /\ now = ClockStart
    /\ reqs = [r \in 1..MaxRequests |-> NoRequest]
    /\ last_request = 0
    /\ lockHolder = 0
    /\ topoVersion = 0
    /\ purges = 0
    /\ refreshTimes = <<>>
    /\ address \in Addresses
    /\ port \in Ports
    /\ srvState = "starting"
    /\ socket_addr = <<>>

\* runner runs up to the listener: it serves, or the process ends.
Runner ==
    /\ srvState = "starting"
    /\ \E r \in {runner(handlerKind, address, port)} :
          /\ srvState' = r.state
          /\ socket_addr' = r.socket
    /\ UNCHANGED <<handlerKind, now, reqs, last_request, lockHolder, topoVersion, purges,
                   refreshTimes, address, port, notSrv>>

\* One second passes while the server serves.
ClockTick ==
    /\ srvState = "serving"
    /\ now < ClockStart + MaxElapsed
    /\ now' = now + 1
    /\ UNCHANGED <<handlerKind, reqs, last_request, lockHolder, topoVersion, purges,
                   refreshTimes, srvStart, notSrv>>

\* A client sends request r to the listener (the requests are numbered as
\* they arrive).
Arrive(r) ==
    /\ srvState = "serving"
    /\ reqs[r].state = "new"
    /\ r > 1 => reqs[r - 1].state # "new"
    /\ \E path \in RequestPaths :
          reqs' = [reqs EXCEPT ![r] = [@ EXCEPT !.state = "queued", !.path = path]]
    /\ UNCHANGED <<handlerKind, now, last_request, lockHolder, topoVersion, purges,
                   refreshTimes, srvStart, notSrv>>

\* if req.uri().path() == "/metrics" { .. } else { .. }
MinimalBody(path) == IF path = MetricsPath THEN PlaceholderBody ELSE HintBody

\* show_metrics, lines 225 to 234: the whole handler.
ShowMetrics(r) ==
    /\ handlerKind = "minimal"
    /\ reqs[r].state = "queued"
    /\ reqs' = [reqs EXCEPT ![r] = [@ EXCEPT !.state = "done", !.now = now,
                                             !.gap = now - LastRefreshAt,
                                             !.status = 200,
                                             !.body = MinimalBody(reqs[r].path)]]
    /\ UNCHANGED <<handlerKind, now, last_request, lockHolder, topoVersion, purges,
                   refreshTimes, srvStart, notSrv>>

\* The mutation of MutexFree that lets a handler start while another runs.
MutexFreeAlways == TRUE

\* data.last_request.lock(): the mutex is free.
MutexFree == lockHolder = 0

\* if now - (*last_request) > Duration::from_secs(5)
Stale(t) == t - last_request > RefreshWindow

\* The throttled show_metrics, lines 241 to 253: now, the lock, the test of
\* the window and, past it, the purge; the refresh is then running.
ShowMetricsBegin(r) ==
    /\ handlerKind = "throttled"
    /\ reqs[r].state = "queued"
    /\ reqs[r].path = MetricsPath
    /\ MutexFree
    /\ lockHolder' = r
    /\ reqs' = [reqs EXCEPT ![r] = [@ EXCEPT
                    !.state = IF Stale(now) THEN "refreshing" ELSE "generating",
                    !.now = now,
                    !.refreshed = Stale(now),
                    !.gap = now - LastRefreshAt]]
    /\ purges' = IF Stale(now) THEN purges + 1 ELSE purges
    /\ UNCHANGED <<handlerKind, now, last_request, topoVersion, refreshTimes, srvStart, notSrv>>

\* Line 254: (*topology).refresh() returns.
RefreshEnd(r) ==
    /\ reqs[r].state = "refreshing"
    /\ topoVersion' = topoVersion + 1
    /\ refreshTimes' = Append(refreshTimes, reqs[r].now)
    /\ reqs' = [reqs EXCEPT ![r] = [@ EXCEPT !.state = "generating"]]
    /\ UNCHANGED <<handlerKind, now, last_request, lockHolder, purges, srvStart, notSrv>>

\* Lines 258 to 293: *last_request = now, the metrics of the snapshot, the
\* response; the locks are released.
ShowMetricsEnd(r) ==
    /\ reqs[r].state = "generating"
    /\ last_request' = reqs[r].now
    /\ reqs' = [reqs EXCEPT ![r] = [@ EXCEPT !.state = "done", !.status = 200,
                                             !.body = MetricsBody(topoVersion)]]
    /\ lockHolder' = 0
    /\ UNCHANGED <<handlerKind, now, topoVersion, purges, refreshTimes, srvStart, notSrv>>

\* landing_page, lines 296 to 303: the default service of the throttled runner.
LandingPage(r) ==
    /\ handlerKind = "throttled"
    /\ reqs[r].state = "queued"
    /\ reqs[r].path # MetricsPath
    /\ reqs' = [reqs EXCEPT ![r] = [@ EXCEPT !.state = "done", !.now = now,
                                             !.status = 200, !.body = LandingBody]]
    /\ UNCHANGED <<handlerKind, now, last_request, lockHolder, topoVersion, purges,
                   refreshTimes, srvStart, notSrv>>

ServerNext ==
    \/ Runner
    \/ ClockTick
    \/ \E r \in 1..MaxRequests :
          \/ Arrive(r)
          \/ ShowMetrics(r)
          \/ ShowMetricsBegin(r)
          \/ RefreshEnd(r)
          \/ ShowMetricsEnd(r)
          \/ LandingPage(r)

(***************************************************************************)
(* The specifications.                                                     *)
(***************************************************************************)
CounterObsIdle ==
    /\ lastOps = <<>>
    /\ lastResult = "none"
    /\ callNo = 0
    /\ sumDeltas = 0
    /\ allOk = TRUE
    /\ restarts = 0
    /\ prevFiles = <<>>
    /\ lastDelta = 0

Init == LoopInit /\ CounterObsIdle /\ NameIdle /\ FilterIdle /\ FmtIdle /\ SrvIdle
Next == RunTick \/ RestartLoop
Spec == Init /\ [][Next]_vars

InitCounter == CounterInit /\ NameIdle /\ FilterIdle /\ LoopIdle /\ FmtIdle /\ SrvIdle
SpecCounter == InitCounter /\ [][CounterNext]_vars

SpecTimer == Init /\ [][TimerTick]_vars

InitForeign == ForeignInit /\ NameIdle /\ FilterIdle /\ LoopIdle /\ FmtIdle /\ SrvIdle
SpecForeign == InitForeign /\ [][CounterNext]_vars

InitName == NameInit /\ CounterInit /\ FilterIdle /\ LoopIdle /\ FmtIdle /\ SrvIdle
NameNext == GetVmName
SpecName == InitName /\ [][NameNext]_vars

InitFilter == FilterInit /\ CounterInit /\ NameIdle /\ LoopIdle /\ FmtIdle /\ SrvIdle
FilterNext == FilterQemuVmProcesses
SpecFilter == InitFilter /\ [][FilterNext]_vars

InitFormat == FmtInit /\ CounterInit /\ NameIdle /\ FilterIdle /\ LoopIdle /\ SrvIdle
FormatNext == FormatMetric
SpecFormat == InitFormat /\ [][FormatNext]_vars

InitServer == SrvInit /\ CounterInit /\ NameIdle /\ FilterIdle /\ LoopIdle /\ FmtIdle
SpecServer == InitServer /\ [][ServerNext]_vars

(***************************************************************************)
(* Claims about the counter store (checked under SpecCounter).             *)
(***************************************************************************)
\* The value of the domain-level energy_uj file of the VM path in files f,
\* or -1 when the file is missing or does not hold a number.
CounterValue(f) ==
    IF PackageEnergyPath(VmPath) \in DOMAIN f
    THEN ParseU64(f[PackageEnergyPath(VmPath)])
    ELSE -1

\* The operations among ops of kind k on one of the paths ps.
OpsOn(ops, k, ps) == {i \in 1..Len(ops) : ops[i].op = k /\ ops[i].path \in ps}

AllPaths == {VmPath, DomainPackage(VmPath), DomainCore(VmPath),
             PackageNamePath(VmPath), CoreNamePath(VmPath),
             PackageEnergyPath(VmPath), CoreEnergyPath(VmPath)}
LabelPaths == {PackageNamePath(VmPath), CoreNamePath(VmPath)}
EnergyPaths == {PackageEnergyPath(VmPath), CoreEnergyPath(VmPath)}

\* C1: after any sequence of calls of add_or_create on a VM path that did not
\* exist before the first call, every call returning Ok (restarts allowed
\* in between), the domain-level energy_uj file holds the sum of the deltas.
C1_CounterIsSumOfDeltas ==
    (callNo > 0 /\ allOk) => CounterValue(files) = sumDeltas

\* C2: the value of the domain-level energy_uj file never decreases from one
\* state to the next, whatever the calls (returning Ok, Err or panicking) and
\* the restarts: once the file holds a number it keeps holding one, and the
\* new number is at least the old one.
C2_CounterNeverDecreases ==
    [][CounterValue(files) >= 0 =>
          CounterValue(files') >= CounterValue(files)]_vars

\* C2's case: calls were made, one of them failed, the exporter was
\* restarted, and the counter holds a positive value.
C2_Witness ==
    /\ callNo >= 2
    /\ ~allOk
    /\ restarts >= 1
    /\ CounterValue(files) >= 1

\* C5: of two calls of add_or_create returning Ok on a VM path that did not
\* exist, the first creates the three directories and writes the two label
\* files; the second creates no directory and writes no label file: it
\* writes the two energy_uj files and nothing else.
C5_SecondCallWritesCountersOnly ==
    /\ (callNo = 1 /\ allOk) =>
          /\ Cardinality(OpsOn(lastOps, "create_dir_all", AllPaths)) = 3
          /\ Cardinality(OpsOn(lastOps, "write", LabelPaths)) = 2
    /\ (callNo = 2 /\ allOk) =>
          /\ OpsOn(lastOps, "create_dir_all", AllPaths) = {}
          /\ OpsOn(lastOps, "write", LabelPaths) = {}
          /\ Cardinality(OpsOn(lastOps, "write", EnergyPaths)) = 2

(***************************************************************************)
(* Claims about the VM classifier (checked under SpecName, SpecFilter).    *)
(***************************************************************************)
\* The name a token "guest=<name>..." carries: the text after the marker,
\* up to (and without) the first "," or "=" that follows, or to the end.
MarkerName(tok) ==
    LET rest == SubSeq(tok, Len(GuestMarker) + 1, Len(tok))
        stops == {i \in 1..Len(rest) : rest[i] \in {",", "="}}
    IN  IF stops = {} THEN rest ELSE SubSeq(rest, 1, Min(stops) - 1)

\* C6: for every command line, if some token starts with "guest=" the result
\* of get_vm_name_from_cmdline is the name of the first such token, wherever
\* it stands relative to an "-id" flag; otherwise, if a token "-id" is
\* followed by a token, the result is the token that follows the first
\* "-id"; otherwise the result is the empty text.
C6_GuestWinsThenIdThenEmpty ==
    namePc = "done" =>
        LET guests == {i \in 1..Len(cmdline) : StartsWith(cmdline[i], GuestMarker)}
            ids == {i \in 1..Len(cmdline) : cmdline[i] = IdFlag /\ i < Len(cmdline)}
        IN  IF guests # {} THEN vmName = MarkerName(cmdline[Min(guests)])
            ELSE IF ids # {} THEN vmName = cmdline[Min(ids) + 1]
            ELSE vmName = <<>>

\* C6's case: "-id 107" comes before the guest= token, and guest= wins.
C6_Witness ==
    /\ namePc = "done"
    /\ cmdline = <<TokIdFlag, Tok107, TokGuestMyvm>>
    /\ vmName = <<"m","y","v","m">>

\* C7: no chain that filter_qemu_vm_processes returns is without a sample
\* whose command line has a token containing "qemu-system" or
\* "/usr/bin/kvm", and the chains returned are input chains, whole, in the
\* order of the input.
C7_ReturnedChainsMatch ==
    filterPc = "done" =>
        /\ \A j \in 1..Len(qemu_processes) :
              \E k \in 1..Len(qemu_processes[j]) :
                 \E t \in 1..Len(qemu_processes[j][k].cmdline) :
                    \/ Contains(qemu_processes[j][k].cmdline[t], SignatureQemu)
                    \/ Contains(qemu_processes[j][k].cmdline[t], SignatureKvm)
        /\ \E f \in [1..Len(qemu_processes) -> 1..Len(processes)] :
              /\ \A i, j \in 1..Len(qemu_processes) : i < j => f[i] < f[j]
              /\ \A j \in 1..Len(qemu_processes) : qemu_processes[j] = processes[f[j]]

\* C7's case: of two chains, the one that never matches is left out and the
\* one that matches is returned.
C7_Witness ==
    /\ filterPc = "done"
    /\ Len(processes) = 2
    /\ \A k \in 1..Len(processes[1]) : processes[1][k].cmdline = CmdBash
    /\ Len(processes[1]) = 2
    /\ Len(processes[2]) = 2
    /\ qemu_processes = <<processes[2]>>

(***************************************************************************)
(* Claims about the export loop (checked under Spec).                      *)
(***************************************************************************)
\* C8: a turn of the loop whose iterate finds no power diff or no time diff
\* creates and writes nothing (no filesystem operation, no call of
\* add_or_create, the directories and files as they were) and ends without
\* a panic: the loop is still running afterwards.
C8_NoResultNoWrite ==
    [][(tickNo' = tickNo + 1 /\ tickInterval' \in {"no_power", "no_time"}) =>
          /\ dirs' = dirs
          /\ files' = files
          /\ tickOps' = <<>>
          /\ tickCalls' = <<>>
          /\ running']_vars

\* C8's case: a turn without a time diff, while the chain of a guest process
\* is long enough to be attributed and has a factor; nothing was written.
C8_Witness ==
    /\ tickInterval = "no_time"
    /\ chainLen[1] > 2
    /\ tickOps = <<>>
    /\ files = <<>>
    /\ running

(***************************************************************************)
(* Claims about the metric formatter (checked under SpecFormat).           *)
(***************************************************************************)
\* k="v",k2="v2": the labels, a comma between two of them and none after the
\* last.
RECURSIVE CommaSeparated(_)
CommaSeparated(m) ==
    IF Len(m) = 0 THEN <<>>
    ELSE m[1][1] \o <<"=", "\"">> \o m[1][2] \o <<"\"">>
         \o (IF Len(m) > 1 THEN <<",">> \o CommaSeparated(Tail(m)) ELSE <<>>)

\* C9: for a map that is not empty, format_metric gives name{k="v",k2="v2"},
\* a space, the value and a newline, with no comma before the closing
\* brace; whenever the map it is given is empty (and when it is given no
\* map), there is no brace at all: the name, a space, the value, a newline.
C9_LineRendering ==
    fmtPc = "done" =>
        LET m == IF fmtLabels = <<>> THEN <<>> ELSE fmtLabels[1] IN
        fmtOut = fmtKey
                 \o (IF Len(m) = 0 THEN <<>> ELSE <<"{">> \o CommaSeparated(m) \o <<"}">>)
                 \o <<" ">> \o fmtValue \o <<"\n">>


(***************************************************************************)
(* The metrics server: refreshes and responses.                            *)
(***************************************************************************)
Answered == {r \in DOMAIN reqs : reqs[r].state = "done"}
Refreshing == {r \in DOMAIN reqs : reqs[r].state = "refreshing"}

\* C3: a request to "/metrics" refreshes the topology exactly when it
\* arrives more than 5 seconds after the last refresh (so of two requests one
\* second apart one refreshes, and a third, six seconds after the first,
\* refreshes again); otherwise it reuses the previous snapshot.
C3_RefreshIffStale ==
    \A r \in Answered :
        reqs[r].path = MetricsPath =>
            (reqs[r].refreshed <=> reqs[r].gap > RefreshWindow)

C10_MetricsOrHint ==
    \A r \in Answered :
        /\ reqs[r].status = 200
        /\ reqs[r].path = MetricsPath => reqs[r].body.kind = "metrics"
        /\ reqs[r].path # MetricsPath => reqs[r].body \in {HintBody, LandingBody}


(***************************************************************************)
(* The metrics server: startup.                                            *)
(***************************************************************************)
InvalidSetting == ParseIpAddr(address) = <<>> \/ ParseU16(port) = -1

\* C11: when the address is no IP address or the port is no TCP port
\* number, runner ends fatally: no listener is ever bound, no request is
\* ever received or answered, and no default stands in for the setting.
C11_InvalidSettingNeverServes ==
    (srvState # "none" /\ InvalidSetting) =>
        /\ srvState \in {"starting", "panicked", "failed"}
        /\ socket_addr = <<>>
        /\ \A r \in DOMAIN reqs : reqs[r].state = "new"

\* runner has ended on a port that is no port, the address being valid.
C11_Witness ==
    /\ srvState = "panicked"
    /\ ParseIpAddr(address) # <<>>
    /\ ParseU16(port) = -1


(***************************************************************************)
(* add_or_create: the layout it leaves.                                    *)
(***************************************************************************)
\* A decimal non-negative integer: one or more digits.
IsDecimal(t) == Len(t) > 0 /\ \A i \in 1..Len(t) : IsDigit(t[i])

\* The layout under the VM directory vm with the domain directory named dom
\* and the sub-domain directory named core: both directories, the two labels
\* and a decimal energy_uj at both levels.
LayoutAt(vm, dom, core) ==
    LET domDir == Join(vm, dom)
        coreDir == Join(domDir, core)
    IN  /\ {vm, domDir, coreDir} \subseteq dirs
        /\ {Join(domDir, NameFile), Join(coreDir, NameFile),
            Join(domDir, EnergyFile), Join(coreDir, EnergyFile)} \subseteq DOMAIN files
        /\ files[Join(domDir, NameFile)] = PackageLabel
        /\ files[Join(coreDir, NameFile)] = CoreLabel
        /\ IsDecimal(files[Join(domDir, EnergyFile)])
        /\ IsDecimal(files[Join(coreDir, EnergyFile)])

SpecDomainName == <<"d","o","m","a","i","n","-","0">>
SpecCoreName == <<"d","o","m","a","i","n","-","0",":","c","o","r","e","-","0">>
RaplDomainName == <<"i","n","t","e","l","-","r","a","p","l",":","0">>
RaplCoreName == <<"i","n","t","e","l","-","r","a","p","l",":","0",":","0">>

\* C12, as stated: after every successful counter update on a VM path the
\* tree <vm path>/domain-0/domain-0:core-0 exists, with the label
\* "package-0" at the domain level, the label "core" at the sub-domain level
\* and a decimal energy_uj at both levels.
C12_LayoutDomain0 ==
    lastResult = "ok" => LayoutAt(VmPath, SpecDomainName, SpecCoreName)

\* C12, amended: the same layout under the directory names of the code,
\* <vm path>/intel-rapl:0/intel-rapl:0:0.
C12_LayoutIntelRapl ==
    lastResult = "ok" => LayoutAt(VmPath, RaplDomainName, RaplCoreName)

\* A successful update on a tree that existed already.
C12_Witness ==
    /\ lastResult = "ok"
    /\ callNo >= 2
    /\ PackageEnergyPath(VmPath) \in DOMAIN prevFiles
    /\ LayoutAt(VmPath, RaplDomainName, RaplCoreName)


(***************************************************************************)
(* add_or_create: the two counter files.                                   *)
(***************************************************************************)
\* C13: after every call returning Ok the two energy_uj files hold the same
\* content, and it is the previous domain-level value plus the delta
\* whatever the sub-domain file held (or whether it existed) before.
C13_BothFromDomainValue ==
    lastResult = "ok" =>
        /\ EnergyPaths \subseteq DOMAIN files
        /\ files[PackageEnergyPath(VmPath)] = files[CoreEnergyPath(VmPath)]
        /\ PackageEnergyPath(VmPath) \in DOMAIN prevFiles =>
              CounterValue(files) = CounterValue(prevFiles) + lastDelta

\* A call returned Ok on two counter files that an earlier failed call had
\* left diverging.
C13_Witness ==
    /\ lastResult = "ok"
    /\ EnergyPaths \subseteq DOMAIN prevFiles
    /\ prevFiles[PackageEnergyPath(VmPath)] # prevFiles[CoreEnergyPath(VmPath)]
    /\ CounterValue(prevFiles) >= 1


(***************************************************************************)
(* add_or_create: a counter file that holds no number.                     *)
(***************************************************************************)
Unparseable(f) ==
    /\ PackageEnergyPath(VmPath) \in DOMAIN f
    /\ ParseU64(f[PackageEnergyPath(VmPath)]) = -1

\* C14: a call that finds a domain-level energy_uj whose content is no
\* non-negative integer takes the current value as 0: it does not abort,
\* and when no write is refused it returns Ok with the delta in both counter
\* files.
C14_UnparseableCountsAsZero ==
    (callNo >= 1 /\ Unparseable(prevFiles) /\ DomainCore(VmPath) \in dirs) =>
        /\ lastResult # "panic"
        /\ lastResult = "ok" =>
              /\ CounterValue(files) = lastDelta
              /\ files[CoreEnergyPath(VmPath)] = files[PackageEnergyPath(VmPath)]


(***************************************************************************)
(* add_or_create: a refused write.                                         *)
(***************************************************************************)
\* C16: when a call returns an error, the update is dropped: the
\* domain-level energy_uj file holds the same value after the call as before
\* it.
C16_FailedUpdateIsDropped ==
    (lastResult = "err" /\ PackageEnergyPath(VmPath) \in DOMAIN prevFiles) =>
        CounterValue(files) = CounterValue(prevFiles)


(***************************************************************************)
(* The export loop: a refused write in one call of a turn.                 *)
(***************************************************************************)
CallsOf(calls, p) == {i \in 1..Len(calls) : calls[i].pid = p}
FailedPids(calls) == {calls[i].pid : i \in {j \in 1..Len(calls) : calls[j].result = "err"}}
InSeq(sq, x) == \E i \in 1..Len(sq) : sq[i] = x

\* The guest processes the last iterate had to attribute: tracked for more
\* than two samples, with a factor.
Attributable == {p \in QemuPids : chainLen[p] > 2 /\ ~InSeq(tickNoFactor, p)}

\* C15: when a write fails in the call for one VM of a turn, iterate
\* returns and the loop goes on, every other attributable guest of the turn
\* has its call, which returns Ok, and in the next turn with a power and a
\* time diff (one whose iterate returns: no directory creation is refused)
\* the guest whose call failed has a call again when it has a factor.
C15_FailureConfinedToOneVm ==
    /\ [](FailedPids(tickCalls) # {} =>
            /\ running
            /\ \A p \in Attributable : CallsOf(tickCalls, p) # {}
            /\ \A i \in 1..Len(tickCalls) :
                  tickCalls[i].pid \notin FailedPids(tickCalls) =>
                      tickCalls[i].result = "ok")
    /\ [][(tickNo' = tickNo + 1 /\ tickInterval' = "some" /\ running') =>
             \A p \in FailedPids(tickCalls) :
                 ~InSeq(tickNoFactor', p) => CallsOf(tickCalls', p) # {}]_vars

\* A turn, the fourth or a later one, in which the call of one guest failed
\* and the call of a guest that comes after it returned Ok.
C15_Witness ==
    /\ tickNo >= 4
    /\ \E i \in 1..Len(tickCalls) :
          /\ tickCalls[i].result = "err"
          /\ \E j \in (i + 1)..Len(tickCalls) : tickCalls[j].result = "ok"


(***************************************************************************)
(* The export loop: the calls of one turn.                                 *)
(***************************************************************************)
\* C17: within one iterate, add_or_create is called at most once on any
\* export path, whatever the chains and the names they resolve to.
C17_OneCallPerPath ==
    \A i \in 1..Len(tickCalls) :
        \A j \in 1..Len(tickCalls) :
            tickCalls[i].path = tickCalls[j].path => i = j

\* C18: a chain of two samples or fewer is never attributed: in every turn
\* of the loop every call of add_or_create is for a guest tracked for more
\* than two samples, and every directory created and file written in the
\* turn lies under the path of one of these calls.
C18_ShortChainNotAttributed ==
    [][tickNo' = tickNo + 1 =>
          /\ \A i \in 1..Len(tickCalls') : chainLen'[tickCalls'[i].pid] > 2
          /\ \A k \in 1..Len(tickOps') :
                \E i \in 1..Len(tickCalls') :
                    StartsWith(tickOps'[k].path, tickCalls'[i].path)]_vars

\* A turn with a power and a time diff that made calls for the guests of
\* the host's start while the two late guests, tracked for one or two
\* samples, at least one of them with a factor, got none.
C18_Witness ==
    /\ tickInterval = "some"
    /\ Len(tickCalls) >= 1
    /\ chainLen[LatePid] \in 1..2
    /\ chainLen[TwinPid] \in 1..2
    /\ CallsOf(tickCalls, LatePid) = {}
    /\ CallsOf(tickCalls, TwinPid) = {}


(***************************************************************************)
(* The export loop: the purge of the terminated-process records.           *)
(***************************************************************************)
\* C19: the n-th turn of the loop purges exactly when n nominal steps of 5
\* seconds make a multiple of 120 seconds (every 24th turn and no other),
\* the budget is 120 again right after a purge and otherwise 120 less the
\* nominal steps since the last purge, whatever the seconds the turns took.
C19_PurgeEvery120NominalSeconds ==
    /\ \A n \in 1..tickNo : InSeq(purgeTicks, n) <=> (n * Step) % CleanerStep = 0
    /\ timer = CleanerStep - ((tickNo * Step) % CleanerStep)

\* The loop has purged twice, at its 48th turn for the second time, and its
\* turns took more than their nominal 5 seconds.
C19_Witness ==
    /\ Len(purgeTicks) = 2
    /\ purgeTicks[2] = tickNo
    /\ wall > tickNo * Step
    /\ timer = CleanerStep


(***************************************************************************)
(* get_vm_name_from_cmdline: the name of a guest= token.                   *)
(***************************************************************************)
\* Everything after the first "=" of tok up to, and excluding, the next
\* comma, or up to the end of tok when no comma follows.
AfterEqualsToComma(tok) ==
    LET rest == SubSeq(tok, IndexFrom(tok, "=", 1) + 1, Len(tok))
        comma == IndexFrom(rest, ",", 1)
    IN  IF comma = 0 THEN rest ELSE SubSeq(rest, 1, comma - 1)

\* C20: when a token carries the guest= marker, the name returned is
\* everything after the first "=" of the first such token up to the next
\* comma or the end of the token, further "=" characters included, and the
\* empty text when nothing stands there.
C20_NameUpToComma ==
    (namePc = "done" /\ GuestTokens(cmdline) # {}) =>
        vmName = AfterEqualsToComma(cmdline[Min(GuestTokens(cmdline))])


(***************************************************************************)
(* filter_qemu_vm_processes: the sample that decides.                      *)
(***************************************************************************)
FirstSampleMatches(c) == Len(c) > 0 /\ HasSignature(c[1].cmdline)
LastSampleMatches(c) == Len(c) > 0 /\ HasSignature(c[Len(c)].cmdline)

\* C21, as stated: the chains being ordered oldest-to-newest, a chain is
\* retained exactly when the command line of its most recent sample, the
\* last of the chain, contains a signature.
C21_LastSampleDecides ==
    filterPc = "done" => qemu_processes = SelectSeq(processes, LastSampleMatches)

\* C21, amended: the most recent sample is the first of the chain (iterate
\* reads it as `let last = qp.first()`), and a chain is retained exactly
\* when the command line of its first sample contains a signature, whatever
\* the samples after it.
C21_FirstSampleDecides ==
    filterPc = "done" => qemu_processes = SelectSeq(processes, FirstSampleMatches)

\* Of two chains of two samples, the one whose first sample matches and
\* whose second does not is retained, the one whose second sample matches
\* and whose first does not is excluded.
C21_Witness ==
    /\ filterPc = "done"
    /\ Len(processes) = 2
    /\ Len(processes[1]) = 2
    /\ Len(processes[2]) = 2
    /\ FirstSampleMatches(processes[1]) /\ ~LastSampleMatches(processes[1])
    /\ ~FirstSampleMatches(processes[2]) /\ LastSampleMatches(processes[2])
    /\ qemu_processes = <<processes[1]>>

====
